---- MODULE Spec2Model ----
(***************************************************************************)
(* Model of the history-keeping App component                              *)
(* (src/components/ExperimentTimeline.tsx, from line 151): the monitoring  *)
(* loop, the camera source, the upload source, the history ledger and the  *)
(* telemetry generator with its panel (src/components/TelemetryPanel.tsx), *)
(* the camera controls, the ExperimentTimeline component the App renders   *)
(* its history with (src/components/ExperimentTimeline.tsx, lines 1-150),  *)
(* and the earlier App variant (src/unnamed/part_000).                     *)
(*                                                                         *)
(* React semantics the model relies on:                                    *)
(*  - an event handler, the render it causes and the effects of that       *)
(*    render run to completion before the next event is handled, so one    *)
(*    action is handler + commit + effects;                                *)
(*  - a function created in a render closes over that render's state; the  *)
(*    interval callback created by an effect keeps the closure of the      *)
(*    render in which the effect ran until the effect runs again;          *)
(*  - an effect runs again only when one of its dependencies changed;      *)
(*  - a ref attached to a conditionally rendered element is null while     *)
(*    the element is not rendered, and it is detached in the commit,       *)
(*    before the effect cleanups of that commit run.                       *)
(***************************************************************************)
EXTENDS Integers, Sequences, FiniteSets, TLC

\* ---------------------------------------------------------------- bounds
MaxCalls  == 2   \* analysis cycles started in one behaviour
MaxClock  == 1   \* readings of Date.now() that differ
MaxTracks == 1   \* camera acquisitions requested in one behaviour
MaxReads  == 1   \* FileReader reads pending at once
MaxEvents == 4   \* user events (clicks, edits, selections) in one behaviour
MaxTicks  == 1   \* telemetry ticks that change the reading in one behaviour
MaxDrift  == 1   \* drift steps above the initial reading that are followed
MaxHistory == 21 \* entries of a history given to ExperimentTimeline alone
MaxStamp  == 2   \* timestamps that differ in such a history

\* ---------------------------------------------------------------- values
NULL == "null"

InputModes   == {"UPLOAD", "CAMERA"}
UploadTypes  == {NULL, "IMAGE", "VIDEO"}
ThinkingLevels == {"LOW", "HIGH"}
\* context strings: empty, typed by the user, or set by a gallery sample
SampleContext == "sample"
Contexts     == {"", SampleContext}
\* image sources: a captured frame and a file read are data: URLs, a gallery
\* sample is an https URL
Frame        == "data:frame"
FileImage    == "data:file"
SampleImage  == "https:sample"
VideoUrl     == "blob:video"
\* AnalysisResult, abstracted to its status
Results      == {"NORMAL"}
\* err.message of a rejected analyzeExperiment call ("" : no message)
RejectMessages == {"", "No response received from Gemini."}

\* Camera controls. A property of MediaTrackCapabilities or of
\* MediaTrackSettings is <<>> when the track does not report it and <<v>>
\* when it reports v; a range is a record min, max; zoom and focus distance
\* are in steps of the slider.
InitZoom          == 1
InitFocusDistance == 0
ZoomRanges  == {[min |-> 1, max |-> 2], [min |-> 2, max |-> 3]}
FocusRanges == {[min |-> 0, max |-> 1], [min |-> 1, max |-> 2]}
FocusModes  == <<"continuous", "manual">>
\* track.getCapabilities() of a track without camera controls, and `{}`
NoCaps == [zoom |-> <<>>, focusMode |-> <<>>, focusDistance |-> <<>>]
\* track.getSettings() without a current value of any control, and `{}`
NoSettings == [zoom |-> <<>>, focusMode |-> <<>>, focusDistance |-> <<>>]

TelemetryModes == {"SIMULATED", "MANUAL"}
\* Telemetry readings are numbers in thousandths; the random drift of a tick
\* is followed in steps of 0.005.
InitTemperature == 24500
InitPressure    == 101300
DriftStep       == 5
Temperatures == {0} \cup {InitTemperature + DriftStep * k : k \in 0..MaxDrift}
Pressures    == {0} \cup {InitPressure + DriftStep * k : k \in 0..MaxDrift}

VARIABLES
  thinkingLevel, context,
  imagePreview, videoFileSrc, uploadType,
  inputMode, isCameraActive, isAutoMonitoring,
  videoTrack, capabilities,
  caps,           \* the object capabilities holds when it is not null
  zoom, focusMode, focusDistance,
  telemetryMode, telemetry,
  analysis, history,
  timeline,       \* what ExperimentTimeline shows: graph window and log list
  monitoringIntervalRef,
  \* environment
  srcObject,      \* webcamRef.current.srcObject is set
  pendingAcq,     \* getUserMedia requests not settled yet
  liveTracks,     \* camera tracks acquired and not stopped
  pendingReads,   \* FileReader reads not finished yet
  timers,         \* active monitoring intervals, each with its closure
  calls,          \* handleAnalyze invocations past the input check, not settled
  clock,          \* the last reading of Date.now() (the clock is monotone)
  nStarted,       \* cycles started so far (gives each cycle its start rank)
  nCompleted,     \* cycles that completed successfully so far
  entryCalls,     \* for each entry of history, the cycle that appended it
  nEvents,        \* user events handled so far
  telemetryTimers,\* active telemetry intervals
  nTicks,         \* telemetry ticks that changed the reading so far
  appMounted,     \* the component is mounted
  armInvoked      \* the monitoring effect has called handleAnalyze since
                  \* its last cleanup

vars == <<thinkingLevel, context, imagePreview, videoFileSrc, uploadType,
          inputMode, isCameraActive, isAutoMonitoring, videoTrack,
          capabilities, caps, zoom, focusMode, focusDistance,
          telemetryMode, telemetry, analysis, history,
          timeline, monitoringIntervalRef, srcObject, pendingAcq, liveTracks,
          pendingReads, timers, calls, clock, nStarted, nCompleted,
          entryCalls, nEvents, telemetryTimers, nTicks, appMounted,
          armInvoked>>

\* ------------------------------------------------------------ initial state
\* State after mount: the useState initial values, the telemetry effect run
\* in SIMULATED mode (one interval), the inputMode effect run with inputMode
\* = UPLOAD (stopCamera with no element, setIsAutoMonitoring(false)) and the
\* monitoring effect run unarmed.
Init ==
  /\ thinkingLevel = "HIGH"
  /\ context = ""
  /\ imagePreview = NULL
  /\ videoFileSrc = NULL
  /\ uploadType = NULL
  /\ inputMode = "UPLOAD"
  /\ isCameraActive = FALSE
  /\ isAutoMonitoring = FALSE
  /\ videoTrack = FALSE
  /\ capabilities = FALSE
  /\ caps = NoCaps
  /\ zoom = InitZoom
  /\ focusMode = "continuous"
  /\ focusDistance = InitFocusDistance
  /\ telemetryMode = "SIMULATED"
  /\ telemetry = [temperature |-> InitTemperature, pressure |-> InitPressure]
  /\ analysis = [isLoading |-> FALSE, result |-> NULL, error |-> NULL]
  /\ history = <<>>
  /\ timeline = [dataWindow |-> <<>>, logs |-> <<>>]
  /\ monitoringIntervalRef = 0
  /\ srcObject = FALSE
  /\ pendingAcq = 0
  /\ liveTracks = 0
  /\ pendingReads = 0
  /\ timers = {}
  /\ calls = {}
  /\ clock = 0
  /\ nStarted = 0
  /\ nCompleted = 0
  /\ entryCalls = <<>>
  /\ nEvents = 0
  /\ telemetryTimers = 1
  /\ nTicks = 0
  /\ appMounted = TRUE
  /\ armInvoked = FALSE

\* ------------------------------------------------------ renders and the DOM
\* The React state of the current render, as the closures of that render see it.
Cur ==
  [thinkingLevel |-> thinkingLevel, context |-> context,
   imagePreview |-> imagePreview, videoFileSrc |-> videoFileSrc,
   uploadType |-> uploadType, inputMode |-> inputMode,
   isAutoMonitoring |-> isAutoMonitoring, telemetry |-> telemetry,
   analysis |-> analysis, history |-> history]

\* The camera controls: what the track reported and the values of the sliders.
cameraControls == <<caps, zoom, focusMode, focusDistance>>

\* The camera source: component state plus the stream of the webcam element.
Cam ==
  [isCameraActive |-> isCameraActive, videoTrack |-> videoTrack,
   capabilities |-> capabilities, srcObject |-> srcObject,
   pendingAcq |-> pendingAcq, liveTracks |-> liveTracks]

\* The monitoring loop and the analysis cycles.
Mon ==
  [timers |-> timers, ref |-> monitoringIntervalRef, calls |-> calls,
   analysis |-> analysis, nStarted |-> nStarted, armInvoked |-> armInvoked]

\* <video ref={webcamRef}> is rendered only in CAMERA mode.
WebcamMounted(r) == r.inputMode = "CAMERA"

\* <video ref={fileVideoRef}> is rendered only for an uploaded video with a source.
FileVideoMounted(r) ==
  r.inputMode = "UPLOAD" /\ r.uploadType = "VIDEO" /\ r.videoFileSrc # NULL

\* const canMonitor / isMonitoringCapable
CanMonitor(im, ut) == im = "CAMERA" \/ (im = "UPLOAD" /\ ut = "VIDEO")

\* The condition under which the monitoring effect arms the loop.
Armed(auto, im, ut) == auto /\ CanMonitor(im, ut)

\* ----------------------------------------------------------------- camera
\* stopCamera, with `mounted` telling whether webcamRef.current is an element.
StopCamera(mounted, cam) ==
  IF mounted
  THEN [cam EXCEPT !.liveTracks = IF cam.srcObject THEN @ - 1 ELSE @,
                   !.srcObject = FALSE,
                   !.isCameraActive = FALSE,
                   !.videoTrack = FALSE,
                   !.capabilities = FALSE]
  ELSE cam

\* The inputMode effect of a commit that changed inputMode from `old` to
\* r.inputMode: the cleanup of the previous run, then the body. The webcam
\* element of the new render is a new element (no stream) or absent.
\* Returns the camera and the value of isAutoMonitoring the effect leaves.
InputModeEffect(r, cam) ==
  LET fresh == [cam EXCEPT !.srcObject = FALSE]
      cleaned == StopCamera(WebcamMounted(r), fresh)
  IN  IF r.inputMode = "CAMERA"
      THEN [cam |-> [cleaned EXCEPT !.pendingAcq = @ + 1],
            isAutoMonitoring |-> TRUE]
      ELSE [cam |-> StopCamera(WebcamMounted(r), cleaned),
            isAutoMonitoring |->
              IF r.uploadType # "VIDEO" THEN FALSE ELSE r.isAutoMonitoring]

\* --------------------------------------------------------- analysis cycles
\* captureFrame of a render r, with the refs of the committed render dom:
\* `ready` is sourceVideo.readyState >= 2 (a webcam element without a stream
\* is never ready).
CaptureFrame(r, dom, src, ready) ==
  IF r.inputMode = "CAMERA"
  THEN IF WebcamMounted(dom) /\ src /\ ready THEN Frame ELSE NULL
  ELSE IF r.inputMode = "UPLOAD" /\ r.uploadType = "VIDEO"
       THEN IF FileVideoMounted(dom) /\ ready THEN Frame ELSE NULL
       ELSE NULL

\* handleAnalyze, "Determine Source".
ImageToAnalyze(r, dom, src, ready) ==
  IF r.inputMode = "CAMERA" THEN CaptureFrame(r, dom, src, ready)
  ELSE IF r.uploadType = "VIDEO" THEN CaptureFrame(r, dom, src, ready)
  ELSE r.imagePreview

\* Variant: setAnalysis(isLoading: true) comes before the input check.
HandleAnalyzeLoadingBeforeCheck(r, trigger, dom, src, ready, mon) ==
  LET img == ImageToAnalyze(r, dom, src, ready)
  IN  IF img = NULL \/ r.context = ""
      THEN [mon EXCEPT !.armInvoked = @ \/ trigger = "arm",
                       !.analysis = [@ EXCEPT !.isLoading = TRUE, !.error = NULL]]
      ELSE [mon EXCEPT
             !.armInvoked = @ \/ trigger = "arm",
             !.analysis = [@ EXCEPT !.isLoading = TRUE, !.error = NULL],
             !.nStarted = @ + 1,
             !.calls = @ \cup {[id |-> mon.nStarted + 1,
                                phase |-> "preparing",
                                image |-> img,
                                telemetry |-> r.telemetry,
                                trigger |-> trigger]}]

\* handleAnalyze of render r up to its first await: the input check, then
\* setAnalysis(prev => ({...prev, isLoading: true, error: null})) and the
\* asynchronous rest, which keeps r's telemetry.
HandleAnalyze(r, trigger, dom, src, ready, mon) ==
  LET img == ImageToAnalyze(r, dom, src, ready)
  IN  IF img = NULL \/ r.context = ""
      THEN [mon EXCEPT !.armInvoked = @ \/ trigger = "arm"]
      ELSE [mon EXCEPT
             !.armInvoked = @ \/ trigger = "arm",
             !.analysis = [@ EXCEPT !.isLoading = TRUE, !.error = NULL],
             !.nStarted = @ + 1,
             !.calls = @ \cup {[id |-> mon.nStarted + 1,
                                phase |-> "preparing",
                                image |-> img,
                                telemetry |-> r.telemetry,
                                trigger |-> trigger]}]

\* What handleAnalyze reads of the render that created it.
Closure(r) ==
  [inputMode |-> r.inputMode, uploadType |-> r.uploadType,
   imagePreview |-> r.imagePreview, context |-> r.context,
   thinkingLevel |-> r.thinkingLevel, telemetry |-> r.telemetry]

\* ------------------------------------------------------- monitoring effect
\* setInterval returns a positive id no live interval has. (The ref is the
\* only holder of an id and is overwritten with the new one at once, so the
\* id of a cleared interval can be given again.)
FreshTimerId(mon) ==
  CHOOSE i \in 1..(Cardinality(mon.timers) + 1) : \A t \in mon.timers : t.id # i

\* Variant: clearInterval that cancels nothing.
ClearNothing(ts, id) == ts

ClearInterval(ts, id) == {t \in ts : t.id # id}

\* Variant: the body only creates the interval, the first cycle waits for
\* the first tick.
MonitoringEffectWithoutFirstCycle(r, dom, src, ready, mon) ==
  LET cleaned == [mon EXCEPT !.timers = ClearInterval(@, mon.ref),
                             !.armInvoked = FALSE]
  IN  IF Armed(r.isAutoMonitoring, r.inputMode, r.uploadType)
      THEN LET id == FreshTimerId(cleaned)
           IN  [cleaned EXCEPT
                 !.timers = @ \cup {[id |-> id,
                                     isLoading |-> r.analysis.isLoading,
                                     closure |-> Closure(r)]},
                 !.ref = id]
      ELSE [cleaned EXCEPT !.timers = ClearInterval(@, cleaned.ref)]

\* Variant: the effect returns no cleanup.
MonitoringEffectWithoutCleanup(r, dom, src, ready, mon) ==
  IF Armed(r.isAutoMonitoring, r.inputMode, r.uploadType)
  THEN LET m == HandleAnalyze(r, "arm", dom, src, ready, mon)
           id == FreshTimerId(m)
       IN  [m EXCEPT
             !.timers = @ \cup {[id |-> id,
                                 isLoading |-> r.analysis.isLoading,
                                 closure |-> Closure(r)]},
             !.ref = id]
  ELSE [mon EXCEPT !.timers = ClearInterval(@, mon.ref)]

\* The monitoring effect of a commit of render r whose dependencies changed:
\* cleanup of the previous run, then the body.
MonitoringEffect(r, dom, src, ready, mon) ==
  LET cleaned == [mon EXCEPT !.timers = ClearInterval(@, mon.ref),
                             !.armInvoked = FALSE]
  IN  IF Armed(r.isAutoMonitoring, r.inputMode, r.uploadType)
      THEN LET m == HandleAnalyze(r, "arm", dom, src, ready, cleaned)
               id == FreshTimerId(m)
           IN  [m EXCEPT
                 !.timers = @ \cup {[id |-> id,
                                     isLoading |-> r.analysis.isLoading,
                                     closure |-> Closure(r)]},
                 !.ref = id]
      ELSE [cleaned EXCEPT !.timers = ClearInterval(@, cleaned.ref)]

\* Variant: the dependency list names neither isAutoMonitoring nor uploadType.
MonitoringDepsWithoutSource(r) == <<r.inputMode, r.context, r.thinkingLevel>>

\* The dependency list of the monitoring effect (enablePreprocessing never
\* changes).
MonitoringDeps(r) ==
  <<r.isAutoMonitoring, r.inputMode, r.uploadType, r.context, r.thinkingLevel>>

\* ------------------------------------------------------ ExperimentTimeline
\* "We only show the last 20 points for the graph"
WindowSize == 20

\* Variant: history.slice(0, 20), the first entries.
SliceFromStart(arr, begin) ==
  SubSeq(arr, 1, IF Len(arr) < -begin THEN Len(arr) ELSE -begin)

\* Array.prototype.slice(begin): a negative begin counts from the end, and
\* the result is a new array.
Slice(arr, begin) ==
  LET len == Len(arr)
      k   == IF begin < 0
             THEN (IF len + begin < 0 THEN 0 ELSE len + begin)
             ELSE (IF begin > len THEN len ELSE begin)
  IN  SubSeq(arr, k + 1, len)

\* Array.prototype.reverse(): the array it is called on, reversed in place.
Reverse(arr) == [i \in 1..Len(arr) |-> arr[Len(arr) + 1 - i]]

\* A render of ExperimentTimeline with the prop history = h: the array h
\* refers to after the render, the window of the graph, and the entries of
\* the log panel in the order they are listed.
ExperimentTimeline(h) ==
  LET dataWindow == Slice(h, -WindowSize)
      copy       == h
  IN  [history |-> h, dataWindow |-> dataWindow, logs |-> Reverse(copy)]

\* {history.length > 0 && <ExperimentTimeline history={history} />}
Timeline(h) ==
  IF Len(h) > 0
  THEN [dataWindow |-> ExperimentTimeline(h).dataWindow,
        logs |-> ExperimentTimeline(h).logs]
  ELSE [dataWindow |-> <<>>, logs |-> <<>>]

\* ------------------------------------------------------------------ commit
\* A handler left the React state n: render n, commit it, run the effects
\* whose dependencies changed (inputMode effect, then monitoring effect), and
\* render again if an effect set state. `ready` is the readyState of the
\* video element at this moment.
CommitFrom(n, ready, mon) ==
  LET e2   == IF n.inputMode # inputMode
              THEN InputModeEffect(n, Cam)
              ELSE [cam |-> Cam, isAutoMonitoring |-> n.isAutoMonitoring]
      src  == e2.cam.srcObject
      mon0 == [mon EXCEPT !.analysis = n.analysis]
      mon1 == IF MonitoringDeps(n) # MonitoringDeps(Cur)
              THEN MonitoringEffect(n, n, src, ready, mon0)
              ELSE mon0
      n2   == [n EXCEPT !.isAutoMonitoring = e2.isAutoMonitoring,
                        !.analysis = mon1.analysis]
      mon2 == IF MonitoringDeps(n2) # MonitoringDeps(n)
              THEN MonitoringEffect(n2, n2, src, ready, mon1)
              ELSE mon1
  IN  /\ mon2.nStarted <= MaxCalls
      /\ thinkingLevel' = n2.thinkingLevel
      /\ context' = n2.context
      /\ imagePreview' = n2.imagePreview
      /\ videoFileSrc' = n2.videoFileSrc
      /\ uploadType' = n2.uploadType
      /\ inputMode' = n2.inputMode
      /\ isAutoMonitoring' = n2.isAutoMonitoring
      /\ history' = n2.history
      /\ timeline' = Timeline(n2.history)
      /\ analysis' = mon2.analysis
      /\ timers' = mon2.timers
      /\ monitoringIntervalRef' = mon2.ref
      /\ calls' = mon2.calls
      /\ nStarted' = mon2.nStarted
      /\ armInvoked' = mon2.armInvoked
      /\ isCameraActive' = e2.cam.isCameraActive
      /\ videoTrack' = e2.cam.videoTrack
      /\ capabilities' = e2.cam.capabilities
      /\ UNCHANGED cameraControls
      /\ srcObject' = e2.cam.srcObject
      /\ pendingAcq' = e2.cam.pendingAcq
      /\ liveTracks' = e2.cam.liveTracks
      /\ entryCalls' = IF n2.history = history THEN entryCalls ELSE <<>>
      /\ UNCHANGED <<telemetryMode, telemetry, telemetryTimers, nTicks,
                     clock, nCompleted, appMounted>>

Commit(n, ready) == CommitFrom(n, ready, Mon)

NoAnalysis == [isLoading |-> FALSE, result |-> NULL, error |-> NULL]

\* One more user event is handled.
UserEvent == appMounted /\ nEvents < MaxEvents /\ nEvents' = nEvents + 1

\* The values sourceVideo.readyState >= 2 can have when render n is
\* committed: an element without a source is not ready.
ReadyStates(n) ==
  IF (WebcamMounted(n) /\ inputMode = "CAMERA" /\ srcObject) \/ FileVideoMounted(n)
  THEN BOOLEAN ELSE {FALSE}

\* ------------------------------------------------------------ user events
\* A user event handler left the React state n.
Handle(n) ==
  /\ UserEvent
  /\ \E ready \in ReadyStates(n) : Commit(n, ready)

\* "Live Camera" button.
HandleLiveCameraClick ==
  LET n == [Cur EXCEPT !.inputMode = "CAMERA", !.isAutoMonitoring = TRUE]
  IN  /\ n # Cur
      /\ inputMode = "CAMERA" \/ pendingAcq + liveTracks < MaxTracks
      /\ Handle(n)
      /\ UNCHANGED pendingReads

\* Variant: the button only switches the mode and leaves the flag to the
\* inputMode effect.
HandleFileUploadClickKeepsMonitoring ==
  LET n == [Cur EXCEPT !.inputMode = "UPLOAD"]
  IN  /\ n # Cur
      /\ Handle(n)
      /\ UNCHANGED pendingReads

\* "File Upload" button.
HandleFileUploadClick ==
  LET n == [Cur EXCEPT !.inputMode = "UPLOAD", !.isAutoMonitoring = FALSE]
  IN  /\ n # Cur
      /\ Handle(n)
      /\ UNCHANGED pendingReads

\* Variant: the toggle also drops the cycles in progress.
ToggleAutoMonitoringCancelsCalls ==
  /\ CanMonitor(inputMode, uploadType)
  /\ UserEvent
  /\ LET n == [Cur EXCEPT !.isAutoMonitoring = ~isAutoMonitoring]
     IN  \E ready \in ReadyStates(n) :
           CommitFrom(n, ready, [Mon EXCEPT !.calls = {}])
  /\ UNCHANGED pendingReads

\* "Pause Monitoring" / "Resume Monitoring" button, rendered only when
\* isMonitoringCapable.
ToggleAutoMonitoring ==
  /\ CanMonitor(inputMode, uploadType)
  /\ Handle([Cur EXCEPT !.isAutoMonitoring = ~isAutoMonitoring])
  /\ UNCHANGED pendingReads

\* Sidebar: the context textarea.
SetContext ==
  /\ \E c \in Contexts \ {context} : Handle([Cur EXCEPT !.context = c])
  /\ UNCHANGED pendingReads

\* Sidebar: the reasoning depth buttons.
SetThinkingLevel ==
  /\ \E l \in ThinkingLevels \ {thinkingLevel} :
       Handle([Cur EXCEPT !.thinkingLevel = l])
  /\ UNCHANGED pendingReads

\* handleFileChange with a video file. The file input is rendered in UPLOAD
\* mode only.
HandleFileChangeVideo ==
  /\ inputMode = "UPLOAD"
  /\ Handle([Cur EXCEPT !.analysis = NoAnalysis,
                        !.videoFileSrc = VideoUrl,
                        !.uploadType = "VIDEO",
                        !.imagePreview = NULL,
                        !.isAutoMonitoring = FALSE])
  /\ UNCHANGED pendingReads

\* handleFileChange with any other file: the read is started, the rest
\* happens in reader.onloadend.
HandleFileChangeImage ==
  /\ inputMode = "UPLOAD"
  /\ pendingReads < MaxReads
  /\ Handle([Cur EXCEPT !.analysis = NoAnalysis, !.videoFileSrc = NULL])
  /\ pendingReads' = pendingReads + 1

\* reader.onloadend
FileReadEnd ==
  /\ appMounted
  /\ pendingReads > 0
  /\ LET n == [Cur EXCEPT !.imagePreview = FileImage,
                          !.uploadType = "IMAGE",
                          !.videoFileSrc = NULL,
                          !.isAutoMonitoring = FALSE]
     IN  \E ready \in ReadyStates(n) : Commit(n, ready)
  /\ pendingReads' = pendingReads - 1
  /\ UNCHANGED nEvents

\* Variant: handleGallerySelect without setIsAutoMonitoring(false).
HandleGallerySelectKeepsMonitoring ==
  /\ Handle([Cur EXCEPT !.context = SampleContext,
                        !.analysis = NoAnalysis,
                        !.history = <<>>,
                        !.videoFileSrc = NULL,
                        !.imagePreview = SampleImage,
                        !.uploadType = "IMAGE",
                        !.inputMode = "UPLOAD"])
  /\ UNCHANGED pendingReads

\* handleGallerySelect
HandleGallerySelect ==
  /\ Handle([Cur EXCEPT !.context = SampleContext,
                        !.analysis = NoAnalysis,
                        !.history = <<>>,
                        !.videoFileSrc = NULL,
                        !.imagePreview = SampleImage,
                        !.uploadType = "IMAGE",
                        !.inputMode = "UPLOAD",
                        !.isAutoMonitoring = FALSE])
  /\ UNCHANGED pendingReads

\* The camera and upload state no analysis step touches.
sourceVars == <<thinkingLevel, context, imagePreview, videoFileSrc, uploadType,
                inputMode, isCameraActive, isAutoMonitoring, videoTrack,
                capabilities, caps, zoom, focusMode, focusDistance,
                telemetryMode, telemetry, srcObject, pendingAcq,
                liveTracks, pendingReads, telemetryTimers, nTicks, appMounted>>

\* A step of handleAnalyze outside a commit leaves mon.
SetMon(mon) ==
  /\ mon.nStarted <= MaxCalls
  /\ analysis' = mon.analysis
  /\ calls' = mon.calls
  /\ nStarted' = mon.nStarted
  /\ armInvoked' = mon.armInvoked
  /\ timers' = mon.timers
  /\ monitoringIntervalRef' = mon.ref

\* "Capture & Analyze" / "Analyze Image" button: onClick={() => handleAnalyze()},
\* disabled while analysis.isLoading or when there is no upload.
AnalyzeClick ==
  /\ ~analysis.isLoading
  /\ ~(inputMode = "UPLOAD" /\ imagePreview = NULL /\ videoFileSrc = NULL)
  /\ \E ready \in ReadyStates(Cur) :
       SetMon(HandleAnalyze(Closure(Cur), "manual", Cur, srcObject, ready, Mon))
  /\ UserEvent
  /\ UNCHANGED <<sourceVars, history, timeline, clock, nCompleted, entryCalls>>

\* ------------------------------------------------------- monitoring timer
\* The callback of setInterval(..., 5000): analysis.isLoading and
\* handleAnalyze are those of the render in which the effect ran.
TickCallback(t, ready, mon) ==
  IF ~t.isLoading
  THEN HandleAnalyze(t.closure, "tick", Cur, srcObject, ready, mon)
  ELSE mon

MonitoringTick ==
  /\ appMounted
  /\ \E t \in timers, ready \in ReadyStates(Cur) :
       SetMon(TickCallback(t, ready, Mon))
  /\ UNCHANGED <<sourceVars, history, timeline, clock, nCompleted,
                 entryCalls, nEvents>>

\* --------------------------------------------- the asynchronous part
\* preprocessImage: resolves with the canvas re-encoding, or with the source
\* when the image does not decode or does not render.
Enhanced == "data:enhanced"
PreprocessImage(source, decoded) == IF decoded THEN Enhanced ELSE source

IsDataUrl(u) == u \in {Frame, FileImage, Enhanced, "data:fetched"}

\* ensureBase64: a data: URL is returned as it is, anything else is fetched.
\* NULL stands for the thrown Error.
EnsureBase64(u, fetched) ==
  IF IsDataUrl(u) THEN u
  ELSE IF fetched THEN "data:fetched" ELSE NULL

\* finalImageDataUrl.split(',').length = 2: what a canvas encodes always
\* has one comma; what a FileReader read may not.
HasTwoParts(u, wellFormed) == u \in {Frame, Enhanced} \/ wellFormed

\* parts[1] of the data: URL, the argument of analyzeExperiment
Base64Data == "base64"

\* Variant: err.message as it is.
RawMessage(m) == m

\* err.message || "An unexpected error occurred."
ErrorMessage(m) == IF m = "" THEN "An unexpected error occurred." ELSE m

\* Variant: the catch block also stops monitoring, setIsAutoMonitoring(false).
CatchStopsMonitoring(r, msg) ==
  [r EXCEPT !.analysis = [isLoading |-> FALSE, result |-> NULL,
                          error |-> ErrorMessage(msg)],
            !.isAutoMonitoring = FALSE]

\* Variant: the catch block keeps the result of an earlier cycle.
CatchKeepsResult(r, msg) ==
  [r EXCEPT !.analysis = [isLoading |-> FALSE, result |-> r.analysis.result,
                          error |-> ErrorMessage(msg)]]

\* The catch block of handleAnalyze: the React state it leaves of render r.
Catch(r, msg) ==
  [r EXCEPT !.analysis = [isLoading |-> FALSE, result |-> NULL,
                          error |-> ErrorMessage(msg)]]

\* A cycle c threw msg: it is over, and its catch block has run.
Fail(c, msg) ==
  \E ready \in ReadyStates(Cur) :
    CommitFrom(Catch(Cur, msg), ready, [Mon EXCEPT !.calls = @ \ {c}])

\* Number.prototype.toFixed(2) on a reading in thousandths: the nearest
\* hundredth, the larger one when two are as near.
ToFixed2(v) == ((v + 5) \div 10) * 10

\* The [REAL-TIME TELEMETRY] block of an augmented context.
TelemetryBlock(tel) ==
  [temperature |-> ToFixed2(tel.temperature),
   pressure |-> ToFixed2(tel.pressure)]

\* The telemetry block cycle c writes into its augmented context: the
\* telemetry read is the one of the cycle's closure.
AugmentedContext(c) == TelemetryBlock(c.telemetry)

\* Variant: the entry carries the telemetry held when the call completes.
HistoryItemWithLaterTelemetry(c, result, now) ==
  [timestamp |-> now, telemetry |-> telemetry, analysis |-> result]

\* The HistoryItem a successful cycle appends. now is Date.now(), read when
\* the call has completed; telemetry is the one of the cycle's closure.
HistoryItem(c, result, now) ==
  [timestamp |-> now, telemetry |-> c.telemetry, analysis |-> result]

\* Variant: setHistory(prev => [item, ...prev])
PrependHistory(prev, item) == <<item>> \o prev

\* Variant: setHistory([item])
ReplaceHistory(prev, item) == <<item>>

\* setHistory(prev => [...prev, item])
AppendHistory(prev, item) == Append(prev, item)

\* Outcome of the awaits before analyzeExperiment: NULL, or the message of
\* the Error thrown.
PrepareError(c, decoded, fetched, wellFormed) ==
  LET u == EnsureBase64(PreprocessImage(c.image, decoded), fetched)
  IN  IF u = NULL THEN "Unable to process image. Network or CORS error."
      ELSE IF ~HasTwoParts(u, wellFormed) THEN "Invalid image data format."
      ELSE NULL

\* preprocessImage and ensureBase64 have settled: the cycle issues the
\* analyzeExperiment call, or throws into the catch block.
PrepareDone ==
  /\ appMounted
  /\ \E c \in calls :
       /\ c.phase = "preparing"
       /\ \E e \in {PrepareError(c, decoded, fetched, wellFormed) :
                      decoded \in BOOLEAN, fetched \in BOOLEAN,
                      wellFormed \in BOOLEAN} :
              IF e = NULL
              THEN /\ calls' = (calls \ {c}) \cup
                                {[c EXCEPT !.phase = "analyzing",
                                          !.image = Base64Data]}
                   /\ UNCHANGED <<sourceVars, analysis, history, timeline, clock,
                                  nCompleted, entryCalls, nStarted, timers,
                                  monitoringIntervalRef, armInvoked>>
              ELSE /\ Fail(c, e)
                   /\ UNCHANGED pendingReads
  /\ UNCHANGED nEvents

\* analyzeExperiment resolved.
AnalyzeResolved ==
  /\ appMounted
  /\ \E c \in calls, result \in Results, now \in clock..MaxClock :
       /\ c.phase = "analyzing"
       /\ calls' = calls \ {c}
       /\ analysis' = [isLoading |-> FALSE, result |-> result, error |-> NULL]
       /\ clock' = now
       /\ history' = AppendHistory(history, HistoryItem(c, result, now))
       /\ timeline' = Timeline(history')
       /\ entryCalls' = AppendHistory(entryCalls, c.id)
       /\ nCompleted' = nCompleted + 1
  /\ UNCHANGED <<sourceVars, nStarted, timers, monitoringIntervalRef, nEvents,
                 armInvoked>>

\* analyzeExperiment rejected.
AnalyzeRejected ==
  /\ appMounted
  /\ \E c \in calls, msg \in RejectMessages :
       /\ c.phase = "analyzing"
       /\ Fail(c, msg)
  /\ UNCHANGED <<pendingReads, nEvents>>

\* ---------------------------------------------------------------- telemetry
\* What no telemetry step touches.
appVars == <<thinkingLevel, context, imagePreview, videoFileSrc, uploadType,
             inputMode, isCameraActive, isAutoMonitoring, videoTrack,
             capabilities, caps, zoom, focusMode, focusDistance,
             analysis, history, timeline, monitoringIntervalRef,
             srcObject, pendingAcq, liveTracks, pendingReads, timers, calls,
             clock, nStarted, nCompleted, entryCalls, appMounted,
             armInvoked>>

\* Variant: the cleanup leaves the interval.
TelemetryNoCleanup(old, n) == n

\* The cleanup of the telemetry effect that ran with telemetryMode = old:
\* it clears the interval that run created, if it created one.
TelemetryCleanup(old, n) == IF old = "SIMULATED" THEN n - 1 ELSE n

\* The telemetry effect of a commit that changed telemetryMode from old to
\* new, n being the number of active telemetry intervals: the cleanup of the
\* previous run, then the body.
TelemetryEffect(old, new, n) ==
  LET cleaned == TelemetryCleanup(old, n)
  IN  IF new = "SIMULATED" THEN cleaned + 1 ELSE cleaned

\* "Auto" / "Manual" buttons of the telemetry panel: setMode.
SetTelemetryMode ==
  /\ UserEvent
  /\ \E m \in TelemetryModes \ {telemetryMode} :
       /\ telemetryMode' = m
       /\ telemetryTimers' = TelemetryEffect(telemetryMode, m, telemetryTimers)
  /\ UNCHANGED <<appVars, telemetry, nTicks>>

\* The callback of setInterval(..., 1000): both readings drift.
TelemetryTick ==
  /\ appMounted
  /\ telemetryTimers > 0
  /\ nTicks < MaxTicks
  /\ \E dt \in {-1, 0, 1}, dp \in {-1, 0, 1} :
       /\ telemetry.temperature + dt * DriftStep \in Temperatures
       /\ telemetry.pressure + dp * DriftStep \in Pressures
       /\ telemetry' = [temperature |-> telemetry.temperature + dt * DriftStep,
                        pressure |-> telemetry.pressure + dp * DriftStep]
       /\ telemetry' # telemetry
  /\ nTicks' = nTicks + 1
  /\ UNCHANGED <<appVars, telemetryMode, telemetryTimers, nEvents>>

\* e.target.value of a telemetry input: a text that parses as a number (a
\* non-zero reading), or one that does not.
NumericTexts(values) == {[numeric |-> TRUE, value |-> v] : v \in values \ {0}}
NonNumericText == [numeric |-> FALSE, value |-> 0]

\* parseFloat and isNaN
NaN == [nan |-> TRUE, value |-> -1]
ParseFloat(text) == IF text.numeric THEN [nan |-> FALSE, value |-> text.value]
                    ELSE NaN
IsNaN(val) == val.nan

\* Variant: val as it was parsed.
AsParsed(val) == val.value

\* isNaN(val) ? 0 : val
NumberOrZero(val) == IF IsNaN(val) THEN 0 ELSE val.value

\* handleTempChange / handlePressureChange: the telemetry they leave.
TempChange(prev, text) ==
  [prev EXCEPT !.temperature = NumberOrZero(ParseFloat(text))]
PressureChange(prev, text) ==
  [prev EXCEPT !.pressure = NumberOrZero(ParseFloat(text))]

\* The temperature input, rendered in MANUAL mode only.
HandleTempChange ==
  /\ telemetryMode = "MANUAL"
  /\ UserEvent
  /\ \E text \in NumericTexts(Temperatures) \cup {NonNumericText} :
       /\ telemetry' = TempChange(telemetry, text)
       /\ telemetry' # telemetry
  /\ UNCHANGED <<appVars, telemetryMode, telemetryTimers, nTicks>>

\* The pressure input, rendered in MANUAL mode only.
HandlePressureChange ==
  /\ telemetryMode = "MANUAL"
  /\ UserEvent
  /\ \E text \in NumericTexts(Pressures) \cup {NonNumericText} :
       /\ telemetry' = PressureChange(telemetry, text)
       /\ telemetry' # telemetry
  /\ UNCHANGED <<appVars, telemetryMode, telemetryTimers, nTicks>>

\* ----------------------------------------------------------------- teardown
\* The component is unmounted: the refs are detached, then the cleanups of
\* the three effects run (stopCamera finds no webcam element).
Unmount ==
  /\ UserEvent
  /\ appMounted' = FALSE
  /\ telemetryTimers' = TelemetryCleanup(telemetryMode, telemetryTimers)
  /\ timers' = ClearInterval(timers, monitoringIntervalRef)
  /\ armInvoked' = FALSE
  /\ LET cam == StopCamera(FALSE, Cam)
     IN  /\ isCameraActive' = cam.isCameraActive
         /\ videoTrack' = cam.videoTrack
         /\ capabilities' = cam.capabilities
         /\ UNCHANGED cameraControls
         /\ srcObject' = cam.srcObject
         /\ pendingAcq' = cam.pendingAcq
         /\ liveTracks' = cam.liveTracks
  /\ UNCHANGED <<thinkingLevel, context, imagePreview, videoFileSrc,
                 uploadType, inputMode, isAutoMonitoring, telemetryMode,
                 telemetry, analysis, history, timeline, monitoringIntervalRef,
                 pendingReads, calls, clock, nStarted, nCompleted, entryCalls,
                 nTicks>>

\* ------------------------------------------------------------- environment
analysisVars == <<analysis, history, timeline, timers, monitoringIntervalRef, calls,
                  nStarted, nCompleted, entryCalls, armInvoked>>

\* `if (settings.zoom)`: a setting that is reported and is not 0 (a
\* number), not "" (a string).
Truthy(s, falsy) == s # <<>> /\ s[1] # falsy

\* What the tracks getUserMedia can give report: the ranges of the controls
\* the camera has, and for each of them the current value or none.
Reported(values) == {<<>>} \cup {<<v>> : v \in values}
Within(r) == IF r = <<>> THEN {} ELSE r[1].min..r[1].max
SettingsOf(c) ==
  [zoom : Reported(Within(c.zoom)),
   focusMode : Reported(IF c.focusMode = <<>> THEN {}
                        ELSE {FocusModes[i] : i \in 1..Len(FocusModes)}),
   focusDistance : Reported(Within(c.focusDistance))]
Capabilities ==
  [zoom : Reported(ZoomRanges), focusMode : Reported({FocusModes}),
   focusDistance : Reported(FocusRanges)]
PlainTrack == [caps |-> NoCaps, settings |-> NoSettings]
ControlTracks ==
  UNION {{[caps |-> c, settings |-> st] : st \in SettingsOf(c)} :
           c \in Capabilities \ {NoCaps}}

\* startCamera after its await, getUserMedia having resolved with a stream
\* of `track`, in the render that is current now. After the unmount the
\* state setters do nothing and there is no webcam element.
StartCameraContinues(track) ==
  /\ pendingAcq' = pendingAcq - 1
  /\ liveTracks' = liveTracks + 1
  /\ IF appMounted
     THEN /\ videoTrack' = TRUE
          /\ capabilities' = TRUE
          /\ caps' = track.caps
          /\ zoom' = IF Truthy(track.settings.zoom, 0)
                     THEN track.settings.zoom[1] ELSE zoom
          /\ focusMode' = IF Truthy(track.settings.focusMode, "")
                          THEN track.settings.focusMode[1] ELSE focusMode
          /\ focusDistance' = IF Truthy(track.settings.focusDistance, 0)
                              THEN track.settings.focusDistance[1]
                              ELSE focusDistance
     ELSE UNCHANGED <<videoTrack, capabilities, cameraControls>>
  /\ IF appMounted /\ WebcamMounted(Cur)
     THEN srcObject' = TRUE /\ isCameraActive' = TRUE
     ELSE UNCHANGED <<srcObject, isCameraActive>>
  /\ UNCHANGED <<thinkingLevel, context, imagePreview, videoFileSrc,
                 uploadType, inputMode, isAutoMonitoring, telemetryMode,
                 telemetry, pendingReads, clock, nEvents, telemetryTimers,
                 nTicks, appMounted>>
  /\ UNCHANGED analysisVars

\* getUserMedia resolved with the stream of a camera without controls.
GetUserMediaResolved ==
  /\ pendingAcq > 0
  /\ StartCameraContinues(PlainTrack)

\* getUserMedia resolved with the stream of a camera that has controls.
GetUserMediaResolvedWithControls ==
  /\ pendingAcq > 0
  /\ \E track \in ControlTracks : StartCameraContinues(track)

\* getUserMedia rejected: the catch block of startCamera alerts.
GetUserMediaRejected ==
  /\ pendingAcq > 0
  /\ pendingAcq' = pendingAcq - 1
  /\ UNCHANGED <<thinkingLevel, context, imagePreview, videoFileSrc,
                 uploadType, inputMode, isCameraActive, isAutoMonitoring,
                 videoTrack, capabilities, caps, zoom, focusMode,
                 focusDistance, telemetryMode, telemetry,
                 srcObject, liveTracks, pendingReads, clock, nEvents,
                 telemetryTimers, nTicks, appMounted>>
  /\ UNCHANGED analysisVars

\* ---------------------------------------------------------- camera controls
\* What no camera control touches.
controlRest ==
  <<thinkingLevel, context, imagePreview, videoFileSrc, uploadType, inputMode,
    isCameraActive, isAutoMonitoring, videoTrack, capabilities, telemetryMode,
    telemetry, analysis, history, timeline, monitoringIntervalRef, srcObject,
    pendingAcq, liveTracks, pendingReads, timers, calls, clock, nStarted,
    nCompleted, entryCalls, telemetryTimers, nTicks, appMounted, armInvoked>>

\* What <input type="range" min max value> shows for a value: the nearest
\* one of its range.
Displayed(v, range) ==
  IF v < range.min THEN range.min ELSE IF v > range.max THEN range.max ELSE v

\* e.target.value of a slider the user has moved: a number of its range
\* other than the one it showed.
SliderTexts(v, range) ==
  {[numeric |-> TRUE, value |-> w] :
     w \in (range.min..range.max) \ {Displayed(v, range)}}

\* handleZoomChange: the zoom slider, rendered in CAMERA mode when the
\* capabilities have a zoom range.
HandleZoomChange ==
  /\ inputMode = "CAMERA"
  /\ capabilities
  /\ caps.zoom # <<>>
  /\ UserEvent
  /\ \E text \in SliderTexts(zoom, caps.zoom[1]) :
       LET newZoom == ParseFloat(text)
       IN  zoom' = AsParsed(newZoom)
  /\ UNCHANGED <<caps, focusMode, focusDistance>>
  /\ UNCHANGED controlRest

\* toggleFocusMode: the Auto / Manual button, rendered in CAMERA mode when
\* the capabilities list more than one focus mode.
ToggleFocusMode ==
  /\ inputMode = "CAMERA"
  /\ capabilities
  /\ caps.focusMode # <<>>
  /\ Len(caps.focusMode[1]) > 1
  /\ UserEvent
  /\ focusMode' = IF ~videoTrack THEN focusMode
                  ELSE IF focusMode = "continuous" THEN "manual"
                  ELSE "continuous"
  /\ UNCHANGED <<caps, zoom, focusDistance>>
  /\ UNCHANGED controlRest

\* handleFocusDistanceChange: the distance slider, rendered in CAMERA mode
\* when focusMode is manual and the capabilities have a focusDistance range.
HandleFocusDistanceChange ==
  /\ inputMode = "CAMERA"
  /\ capabilities
  /\ focusMode = "manual"
  /\ caps.focusDistance # <<>>
  /\ UserEvent
  /\ \E text \in SliderTexts(focusDistance, caps.focusDistance[1]) :
       LET newDist == ParseFloat(text)
       IN  focusDistance' = AsParsed(newDist)
  /\ UNCHANGED <<caps, zoom, focusMode>>
  /\ UNCHANGED controlRest

\* ------------------------------------ ExperimentTimeline given any history
\* What a render of ExperimentTimeline alone leaves as it is.
notTimelineVars ==
  <<thinkingLevel, context, imagePreview, videoFileSrc, uploadType, inputMode,
    isCameraActive, isAutoMonitoring, videoTrack, capabilities, caps, zoom,
    focusMode, focusDistance, telemetryMode,
    telemetry, analysis, monitoringIntervalRef, srcObject, pendingAcq,
    liveTracks, pendingReads, timers, calls, clock, nStarted, nCompleted,
    entryCalls, nEvents, telemetryTimers, nTicks, appMounted, armInvoked>>

\* The HistoryItems that can follow the entries of h: the timestamps of a
\* history do not decrease.
NextItems(h) ==
  {[timestamp |-> ts, telemetry |-> telemetry, analysis |-> result] :
     ts \in (IF h = <<>> THEN 0 ELSE h[Len(h)].timestamp)..MaxStamp,
     result \in Results}

\* The parent renders ExperimentTimeline with a history one entry longer.
TimelineAppend ==
  /\ Len(history) < MaxHistory
  /\ \E item \in NextItems(history) :
       LET out == ExperimentTimeline(AppendHistory(history, item))
       IN  /\ history' = out.history
           /\ timeline' = [dataWindow |-> out.dataWindow, logs |-> out.logs]
  /\ UNCHANGED notTimelineVars

\* The parent empties the history: ExperimentTimeline is not rendered.
TimelineClear ==
  /\ history # <<>>
  /\ history' = <<>>
  /\ timeline' = Timeline(history')
  /\ UNCHANGED notTimelineVars

NextTimeline ==
  \/ TimelineAppend
  \/ TimelineClear

\* ExperimentTimeline rendered with the histories of up to MaxHistory entries.
SpecTimeline == Init /\ [][NextTimeline]_vars

Next ==
  \/ HandleLiveCameraClick
  \/ HandleFileUploadClick
  \/ ToggleAutoMonitoring
  \/ SetContext
  \/ SetThinkingLevel
  \/ HandleFileChangeVideo
  \/ HandleFileChangeImage
  \/ FileReadEnd
  \/ HandleGallerySelect
  \/ AnalyzeClick
  \/ MonitoringTick
  \/ PrepareDone
  \/ AnalyzeResolved
  \/ AnalyzeRejected
  \/ GetUserMediaResolved
  \/ GetUserMediaRejected
  \/ Unmount

\* The App with the telemetry it started with.
Spec == Init /\ [][Next]_vars

NextWithTelemetry ==
  \/ Next
  \/ SetTelemetryMode
  \/ TelemetryTick
  \/ HandleTempChange
  \/ HandlePressureChange

\* The App with the telemetry generator running and the telemetry panel used.
SpecTelemetry == Init /\ [][NextWithTelemetry]_vars

NextCamera ==
  \/ HandleLiveCameraClick
  \/ HandleFileUploadClick
  \/ HandleGallerySelect
  \/ GetUserMediaResolved
  \/ GetUserMediaResolvedWithControls
  \/ GetUserMediaRejected
  \/ HandleZoomChange
  \/ ToggleFocusMode
  \/ HandleFocusDistanceChange
  \/ Unmount

\* The camera of the App: the steps that start and stop it, on a camera
\* with or without zoom and focus controls, and the controls.
SpecCamera == Init /\ [][NextCamera]_vars

\* ================================= the earlier App variant (src/unnamed/part_000)
\* The variant has no uploaded video, no camera controls and no history; it
\* is modelled on the variables of the same names, the others keep their
\* initial values. An interval of this variant carries its age, in seconds.
earlyUnused == <<videoFileSrc, uploadType, videoTrack, capabilities, caps,
                 zoom, focusMode, focusDistance, history,
                 timeline, clock, entryCalls, nTicks, appMounted, armInvoked>>

\* setInterval(..., 10000), in periods of the telemetry interval (1000 ms)
TickPeriod == 10

\* The React state of the current render.
EarlyCur ==
  [thinkingLevel |-> thinkingLevel, context |-> context,
   imagePreview |-> imagePreview, inputMode |-> inputMode,
   isCameraActive |-> isCameraActive, isAutoMonitoring |-> isAutoMonitoring,
   telemetry |-> telemetry, analysis |-> analysis]

\* The stream of the video element and the camera.
EarlyEnv ==
  [srcObject |-> srcObject, pendingAcq |-> pendingAcq, liveTracks |-> liveTracks]

\* The monitoring loop and the analysis cycles.
EarlyMon ==
  [timers |-> timers, ref |-> monitoringIntervalRef, calls |-> calls,
   nStarted |-> nStarted]

\* <video ref={videoRef}> is rendered only in CAMERA mode.
EarlyVideoMounted(r) == r.inputMode = "CAMERA"

\* stopCamera, with `mounted` telling whether videoRef.current is an element.
EarlyStopCamera(mounted, r, env) ==
  IF mounted /\ env.srcObject
  THEN [r |-> [r EXCEPT !.isCameraActive = FALSE, !.isAutoMonitoring = FALSE],
        env |-> [env EXCEPT !.liveTracks = @ - 1, !.srcObject = FALSE]]
  ELSE [r |-> r, env |-> env]

\* The inputMode effect of a commit that changed inputMode: the cleanup of
\* the previous run, then the body. The video element of the new render is a
\* new element (no stream) or absent.
EarlyInputModeEffect(r, env) ==
  LET fresh   == [env EXCEPT !.srcObject = FALSE]
      cleaned == EarlyStopCamera(EarlyVideoMounted(r), r, fresh)
  IN  IF r.inputMode = "CAMERA"
      THEN [r |-> cleaned.r, env |-> [cleaned.env EXCEPT !.pendingAcq = @ + 1]]
      ELSE EarlyStopCamera(EarlyVideoMounted(r), cleaned.r, cleaned.env)

\* captureFrame of render r with the ref of the committed render dom; ctx is
\* whether canvas.getContext('2d') gives a context.
EarlyCaptureFrame(r, dom, ctx) ==
  IF EarlyVideoMounted(dom) /\ r.isCameraActive /\ ctx THEN Frame ELSE NULL

\* handleAnalyze() of render r up to its first await, cur being the React
\* state it updates: the captured frame is shown as the preview, then the
\* input check, then setAnalysis(isLoading: true).
EarlyHandleAnalyze(r, trigger, dom, ctx, cur, mon) ==
  LET captured == IF r.inputMode = "CAMERA"
                  THEN EarlyCaptureFrame(r, dom, ctx) ELSE NULL
      img      == IF captured # NULL THEN captured ELSE r.imagePreview
      shown    == IF captured # NULL
                  THEN [cur EXCEPT !.imagePreview = captured] ELSE cur
  IN  IF img = NULL \/ r.context = ""
      THEN [r |-> shown, mon |-> mon]
      ELSE [r |-> [shown EXCEPT !.analysis =
                                  [@ EXCEPT !.isLoading = TRUE, !.error = NULL]],
            mon |-> [mon EXCEPT
                      !.nStarted = @ + 1,
                      !.calls = @ \cup {[id |-> mon.nStarted + 1,
                                         phase |-> "preparing",
                                         image |-> img,
                                         telemetry |-> r.telemetry,
                                         trigger |-> trigger]}]]

\* What handleAnalyze and captureFrame read of the render that created them.
EarlyClosure(r) ==
  [inputMode |-> r.inputMode, imagePreview |-> r.imagePreview,
   context |-> r.context, thinkingLevel |-> r.thinkingLevel,
   telemetry |-> r.telemetry, isCameraActive |-> r.isCameraActive]

\* The monitoring effect of a commit of render r whose dependencies changed:
\* cleanup of the previous run, then the body.
EarlyMonitoringEffect(r, mon) ==
  LET cleaned == [mon EXCEPT !.timers = ClearInterval(@, mon.ref)]
  IN  IF r.isAutoMonitoring /\ r.inputMode = "CAMERA"
      THEN LET id == FreshTimerId(cleaned)
           IN  [cleaned EXCEPT
                 !.timers = @ \cup {[id |-> id, age |-> 0,
                                     isLoading |-> r.analysis.isLoading,
                                     closure |-> EarlyClosure(r)]},
                 !.ref = id]
      ELSE [cleaned EXCEPT !.timers = ClearInterval(@, cleaned.ref)]

\* The dependency list of the monitoring effect but for telemetry, which is
\* a new object whenever setTelemetry has run.
EarlyMonitoringDeps(r) ==
  <<r.isAutoMonitoring, r.inputMode, r.analysis.isLoading, r.context,
    r.thinkingLevel>>

\* A handler left the React state n (telemetrySet: it called setTelemetry):
\* render n, commit it, run the effects whose dependencies changed, and
\* render again if an effect set state.
EarlyCommit(n, telemetrySet, mon) ==
  LET e2   == IF n.inputMode # inputMode
              THEN EarlyInputModeEffect(n, EarlyEnv)
              ELSE [r |-> n, env |-> EarlyEnv]
      mon1 == IF EarlyMonitoringDeps(n) # EarlyMonitoringDeps(EarlyCur)
                 \/ telemetrySet
              THEN EarlyMonitoringEffect(n, mon)
              ELSE mon
      n2   == e2.r
      mon2 == IF EarlyMonitoringDeps(n2) # EarlyMonitoringDeps(n)
              THEN EarlyMonitoringEffect(n2, mon1)
              ELSE mon1
  IN  /\ mon2.nStarted <= MaxCalls
      /\ thinkingLevel' = n2.thinkingLevel
      /\ context' = n2.context
      /\ imagePreview' = n2.imagePreview
      /\ inputMode' = n2.inputMode
      /\ isCameraActive' = n2.isCameraActive
      /\ isAutoMonitoring' = n2.isAutoMonitoring
      /\ telemetry' = n2.telemetry
      /\ analysis' = n2.analysis
      /\ srcObject' = e2.env.srcObject
      /\ pendingAcq' = e2.env.pendingAcq
      /\ liveTracks' = e2.env.liveTracks
      /\ timers' = mon2.timers
      /\ monitoringIntervalRef' = mon2.ref
      /\ calls' = mon2.calls
      /\ nStarted' = mon2.nStarted
      /\ UNCHANGED earlyUnused

\* A user event handler left the React state n.
EarlyHandle(n) == UserEvent /\ EarlyCommit(n, FALSE, EarlyMon)

\* "File Upload" / "Live Camera" buttons: setInputMode.
EarlySetInputMode ==
  /\ \E m \in InputModes \ {inputMode} :
       /\ m = "CAMERA" => pendingAcq + liveTracks < MaxTracks
       /\ EarlyHandle([EarlyCur EXCEPT !.inputMode = m])
  /\ UNCHANGED <<telemetryMode, telemetryTimers, pendingReads, nCompleted>>

\* "Auto-Monitor (10s)" / "Stop Monitoring" button, rendered in CAMERA mode.
EarlyToggleAutoMonitoring ==
  /\ inputMode = "CAMERA"
  /\ EarlyHandle([EarlyCur EXCEPT !.isAutoMonitoring = ~isAutoMonitoring])
  /\ UNCHANGED <<telemetryMode, telemetryTimers, pendingReads, nCompleted>>

\* Sidebar: the context textarea.
EarlySetContext ==
  /\ \E c \in Contexts \ {context} : EarlyHandle([EarlyCur EXCEPT !.context = c])
  /\ UNCHANGED <<telemetryMode, telemetryTimers, pendingReads, nCompleted>>

\* Sidebar: the reasoning depth buttons.
EarlySetThinkingLevel ==
  /\ \E l \in ThinkingLevels \ {thinkingLevel} :
       EarlyHandle([EarlyCur EXCEPT !.thinkingLevel = l])
  /\ UNCHANGED <<telemetryMode, telemetryTimers, pendingReads, nCompleted>>

\* handleFileChange: the read is started, the rest happens in
\* reader.onloadend. The file input is rendered in UPLOAD mode only.
EarlyHandleFileChange ==
  /\ inputMode = "UPLOAD"
  /\ pendingReads < MaxReads
  /\ EarlyHandle(EarlyCur)
  /\ pendingReads' = pendingReads + 1
  /\ UNCHANGED <<telemetryMode, telemetryTimers, nCompleted>>

\* reader.onloadend
EarlyFileReadEnd ==
  /\ pendingReads > 0
  /\ EarlyCommit([EarlyCur EXCEPT !.imagePreview = FileImage,
                                  !.analysis = NoAnalysis], FALSE, EarlyMon)
  /\ pendingReads' = pendingReads - 1
  /\ UNCHANGED <<telemetryMode, telemetryTimers, nCompleted, nEvents>>

\* handleGallerySelect
EarlyHandleGallerySelect ==
  /\ EarlyHandle([EarlyCur EXCEPT !.context = SampleContext,
                                  !.imagePreview = SampleImage,
                                  !.inputMode = "UPLOAD",
                                  !.analysis = NoAnalysis])
  /\ UNCHANGED <<telemetryMode, telemetryTimers, pendingReads, nCompleted>>

\* handleAnalyze of render r has run up to its first await.
EarlyAnalyzeFrom(r, trigger, mon) ==
  \E ctx \in BOOLEAN :
    LET a == EarlyHandleAnalyze(r, trigger, EarlyCur, ctx, EarlyCur, mon)
    IN  EarlyCommit(a.r, FALSE, a.mon)

\* "Capture & Analyze" / "Analyze Image" button, disabled while
\* analysis.isLoading or when there is no preview in UPLOAD mode.
EarlyAnalyzeClick ==
  /\ ~analysis.isLoading
  /\ ~(inputMode = "UPLOAD" /\ imagePreview = NULL)
  /\ UserEvent
  /\ EarlyAnalyzeFrom(EarlyClosure(EarlyCur), "manual", EarlyMon)
  /\ UNCHANGED <<telemetryMode, telemetryTimers, pendingReads, nCompleted>>

\* "Auto" / "Manual" buttons of the telemetry panel: setMode.
EarlySetTelemetryMode ==
  /\ UserEvent
  /\ \E m \in TelemetryModes \ {telemetryMode} :
       /\ telemetryMode' = m
       /\ telemetryTimers' = TelemetryEffect(telemetryMode, m, telemetryTimers)
  /\ EarlyCommit(EarlyCur, FALSE, EarlyMon)
  /\ UNCHANGED <<pendingReads, nCompleted>>

\* The inputs of the telemetry panel, rendered in MANUAL mode only: setData.
EarlySetTelemetry ==
  /\ telemetryMode = "MANUAL"
  /\ UserEvent
  /\ \E tel \in {TempChange(telemetry, text) :
                   text \in NumericTexts(Temperatures) \cup {NonNumericText}}
           \cup {PressureChange(telemetry, text) :
                   text \in NumericTexts(Pressures) \cup {NonNumericText}} :
       /\ tel # telemetry
       /\ EarlyCommit([EarlyCur EXCEPT !.telemetry = tel], TRUE, EarlyMon)
  /\ UNCHANGED <<telemetryMode, telemetryTimers, pendingReads, nCompleted>>

\* The readings a telemetry tick can leave: each one drifts by a step the
\* model follows, or by less.
Drift(v, values) == {v} \cup ({v - DriftStep, v + DriftStep} \cap (values \ {0}))
Drifts(tel) ==
  {[temperature |-> t, pressure |-> p] :
     t \in Drift(tel.temperature, Temperatures),
     p \in Drift(tel.pressure, Pressures)}

\* One second passes, no monitoring interval being due: the intervals are a
\* second older, and in SIMULATED mode the callback of the telemetry
\* interval runs setTelemetry.
SecondPasses ==
  /\ \A t \in timers : t.age < TickPeriod
  /\ LET aged == [EarlyMon EXCEPT
                   !.timers = {[t EXCEPT !.age = @ + 1] : t \in @}]
     IN  IF telemetryTimers > 0
         THEN \E tel \in Drifts(telemetry) :
                EarlyCommit([EarlyCur EXCEPT !.telemetry = tel], TRUE, aged)
         ELSE EarlyCommit(EarlyCur, FALSE, aged)
  /\ UNCHANGED <<telemetryMode, telemetryTimers, pendingReads, nCompleted,
                 nEvents>>

\* The callback of setInterval(..., 10000) of an interval that is due:
\* analysis.isLoading and handleAnalyze are those of the render in which the
\* effect ran.
EarlyMonitoringTick ==
  /\ \E t \in timers :
       /\ t.age = TickPeriod
       /\ LET mon == [EarlyMon EXCEPT
                       !.timers = (@ \ {t}) \cup {[t EXCEPT !.age = 0]}]
          IN  IF ~t.isLoading
              THEN EarlyAnalyzeFrom(t.closure, "tick", mon)
              ELSE EarlyCommit(EarlyCur, FALSE, mon)
  /\ UNCHANGED <<telemetryMode, telemetryTimers, pendingReads, nCompleted,
                 nEvents>>

\* What happens to the Image preprocessImage loads.
ImageOutcomes == {"rendered", "onerror", "noContext", "throws"}

\* preprocessImage: resolves with the canvas re-encoding, or with the source
\* when the image does not load or there is no 2D context; an exception in
\* img.onload is not caught and the promise never settles (NULL).
EarlyPreprocessImage(source, outcome) ==
  IF outcome = "rendered" THEN Enhanced
  ELSE IF outcome \in {"onerror", "noContext"} THEN source
  ELSE NULL

\* The Image of a cycle has loaded or failed to: preprocessImage resolves and
\* the cycle issues the analyzeExperiment call with
\* finalImageDataUrl.split(',')[1], or img.onload throws (an image the canvas
\* made itself renders).
EarlyPrepareDone ==
  /\ \E c \in calls, outcome \in ImageOutcomes :
       /\ c.phase = "preparing"
       /\ outcome = "throws" => c.image # Frame
       /\ LET u == EarlyPreprocessImage(c.image, outcome)
          IN  calls' = (calls \ {c}) \cup
                {IF u = NULL
                 THEN [c EXCEPT !.phase = "stuck"]
                 ELSE [c EXCEPT !.phase = "analyzing", !.image = Base64Data]}
  /\ UNCHANGED <<thinkingLevel, context, imagePreview, inputMode,
                 isCameraActive, isAutoMonitoring, telemetry, analysis,
                 srcObject, pendingAcq, liveTracks, timers,
                 monitoringIntervalRef, nStarted, telemetryMode,
                 telemetryTimers, pendingReads, nCompleted, nEvents>>
  /\ UNCHANGED earlyUnused

\* analyzeExperiment resolved.
EarlyAnalyzeResolved ==
  /\ \E c \in calls, result \in Results :
       /\ c.phase = "analyzing"
       /\ EarlyCommit([EarlyCur EXCEPT !.analysis =
                         [isLoading |-> FALSE, result |-> result, error |-> NULL]],
                      FALSE, [EarlyMon EXCEPT !.calls = @ \ {c}])
  /\ nCompleted' = nCompleted + 1
  /\ UNCHANGED <<telemetryMode, telemetryTimers, pendingReads, nEvents>>

\* The catch block of handleAnalyze: the React state it leaves of render r.
EarlyCatch(r, msg) ==
  [r EXCEPT !.analysis = [isLoading |-> FALSE, result |-> NULL,
                          error |-> ErrorMessage(msg)],
            !.isAutoMonitoring = FALSE]

\* analyzeExperiment rejected.
EarlyAnalyzeRejected ==
  /\ \E c \in calls, msg \in RejectMessages :
       /\ c.phase = "analyzing"
       /\ EarlyCommit(EarlyCatch(EarlyCur, msg), FALSE,
                      [EarlyMon EXCEPT !.calls = @ \ {c}])
  /\ UNCHANGED <<telemetryMode, telemetryTimers, pendingReads, nCompleted,
                 nEvents>>

\* What the settling of a getUserMedia request leaves as it is.
earlyCameraRest ==
  <<thinkingLevel, context, imagePreview, inputMode, isAutoMonitoring,
    telemetry, analysis, timers, monitoringIntervalRef, calls, nStarted,
    telemetryMode, telemetryTimers, pendingReads, nCompleted, nEvents>>

\* getUserMedia resolved: startCamera continues after its await.
EarlyGetUserMediaResolved ==
  /\ pendingAcq > 0
  /\ pendingAcq' = pendingAcq - 1
  /\ liveTracks' = liveTracks + 1
  /\ IF EarlyVideoMounted(EarlyCur)
     THEN srcObject' = TRUE /\ isCameraActive' = TRUE
     ELSE UNCHANGED <<srcObject, isCameraActive>>
  /\ UNCHANGED earlyCameraRest
  /\ UNCHANGED earlyUnused

\* getUserMedia rejected: the catch block of startCamera alerts.
EarlyGetUserMediaRejected ==
  /\ pendingAcq > 0
  /\ pendingAcq' = pendingAcq - 1
  /\ UNCHANGED <<srcObject, isCameraActive, liveTracks>>
  /\ UNCHANGED earlyCameraRest
  /\ UNCHANGED earlyUnused

NextEarly ==
  \/ EarlySetInputMode
  \/ EarlyToggleAutoMonitoring
  \/ EarlySetContext
  \/ EarlySetThinkingLevel
  \/ EarlyHandleFileChange
  \/ EarlyFileReadEnd
  \/ EarlyHandleGallerySelect
  \/ EarlyAnalyzeClick
  \/ EarlySetTelemetryMode
  \/ EarlySetTelemetry
  \/ SecondPasses
  \/ EarlyMonitoringTick
  \/ EarlyPrepareDone
  \/ EarlyAnalyzeResolved
  \/ EarlyAnalyzeRejected
  \/ EarlyGetUserMediaResolved
  \/ EarlyGetUserMediaRejected

\* The earlier App variant.
SpecEarly == Init /\ [][NextEarly]_vars

\* The earlier App variant with time that passes and intervals that fire
\* when they are due.
SpecEarlyFair ==
  SpecEarly /\ WF_vars(SecondPasses) /\ WF_vars(EarlyMonitoringTick)

\* ===================================================================== claims
\* The cycles whose analyzeExperiment call has been issued and has not settled.
Outstanding == {c \in calls : c.phase = "analyzing"}

\* Cycle c is over after this step.
Settled(c) == c \in calls /\ \A d \in calls' : d.id # c.id

\* This step is the successful completion of a cycle / the failure of a cycle.
SuccessStep == \E c \in calls : Settled(c) /\ nCompleted' = nCompleted + 1
FailureStep == \E c \in calls : Settled(c) /\ nCompleted' = nCompleted

\* The cycles this step started.
StartedBy == {c \in calls' : c.id > nStarted}

IsPrefix(s, t) == Len(s) <= Len(t) /\ SubSeq(t, 1, Len(s)) = s

\* The state handleGallerySelect leaves.
GalleryStep ==
  /\ history' = <<>>
  /\ context' = SampleContext
  /\ imagePreview' = SampleImage
  /\ uploadType' = "IMAGE"
  /\ inputMode' = "UPLOAD"
  /\ ~isAutoMonitoring'

\* C1: a monitoring timer tick that fires while an earlier analysis call has
\* not resolved issues no second call: no call started by a tick is
\* outstanding together with a call started before it.
C1_TickWaitsForOutstandingCall ==
  \A c \in Outstanding, d \in Outstanding :
    c.id < d.id => d.trigger # "tick"

\* C2: at most one analyzeExperiment call is outstanding in every reachable
\* state, whatever the interleaving of ticks, clicks, toggles, edits,
\* selections and completions.
C2_AtMostOneOutstanding == Cardinality(Outstanding) <= 1

C4_SuccessAppendsOneEntry ==
  [][ SuccessStep =>
        /\ Len(history') = Len(history) + 1
        /\ SubSeq(history', 1, Len(history)) = history
        /\ history'[Len(history')].analysis = analysis'.result
        /\ analysis'.result # NULL ]_vars

\* A second entry has been appended after a first one.
C4_Witness == Len(history) = 2 /\ nCompleted = 2 /\ calls = {}

\* C5: the history is non-decreasing in timestamp in every reachable state,
\* also when calls complete in an order different from their start order.
C5_TimestampsNonDecreasing ==
  \A i \in 1..(Len(history) - 1) :
    history[i].timestamp <= history[i + 1].timestamp

\* Two entries with different timestamps, appended by cycles that completed
\* in the opposite of their start order.
C5_Witness ==
  /\ Len(history) = 2
  /\ history[1].timestamp < history[2].timestamp
  /\ entryCalls[1] > entryCalls[2]

\* C6: the entries of the history are in the start order of their calls.
C6_AppendOrderIsStartOrder ==
  \A i \in DOMAIN entryCalls, j \in DOMAIN entryCalls :
    i < j => entryCalls[i] < entryCalls[j]

C8_FailureKeepsMonitoring ==
  [][ FailureStep =>
        /\ isAutoMonitoring' = isAutoMonitoring
        /\ timers' = timers
        /\ monitoringIntervalRef' = monitoringIntervalRef ]_vars

\* The first cycle has failed, monitoring is still armed, and a tick after
\* the failure has started the second cycle.
C8_Witness ==
  /\ isAutoMonitoring /\ timers # {}
  /\ nCompleted = 0 /\ nStarted = 2
  /\ \E c \in calls : calls = {c} /\ c.id = 2 /\ c.trigger = "tick"
  /\ analysis.isLoading

\* C9: once the input mode is not CAMERA, no camera track is live.
C9_NoLiveTrackOutsideCameraMode == inputMode # "CAMERA" => liveTracks = 0

\* C10: while the source is a static image or no upload (UPLOAD mode and
\* uploadType not VIDEO) no monitoring timer is armed, whatever the value of
\* isAutoMonitoring, and no step that ends there starts an automatic cycle.
C10_NoLoopOnStaticSource ==
  /\ [](~CanMonitor(inputMode, uploadType) => timers = {})
  /\ [][ ~CanMonitor(inputMode', uploadType') =>
           \A c \in StartedBy : c.trigger = "manual" ]_vars

\* The loop was armed before and the source is a static image now, with a
\* manual cycle started on it.
C10_Witness ==
  /\ inputMode = "UPLOAD" /\ uploadType = "IMAGE"
  /\ monitoringIntervalRef # 0
  /\ \E c \in calls : c.trigger = "manual" /\ c.image # Frame /\ c.phase = "preparing"

\* This step is a gallery selection / the completion of an image file read.
GallerySelected ==
  /\ nEvents' = nEvents + 1
  /\ imagePreview' = SampleImage /\ uploadType' = "IMAGE"
  /\ inputMode' = "UPLOAD" /\ context' = SampleContext /\ history' = <<>>
ImageReadCompleted == pendingReads' = pendingReads - 1

\* C11: in every state isAutoMonitoring = true implies that the source is
\* capture-capable (CAMERA, or UPLOAD with an uploaded VIDEO), and a gallery
\* selection or the completion of an image file read leaves isAutoMonitoring
\* false.
C11_AutoMonitoringOnlyOnCapableSource ==
  /\ [](isAutoMonitoring => CanMonitor(inputMode, uploadType))
  /\ [][ (GallerySelected \/ ImageReadCompleted) => ~isAutoMonitoring' ]_vars

\* A gallery sample was selected in CAMERA mode right after the Live Camera
\* click had set isAutoMonitoring.
C11_Witness ==
  /\ inputMode = "UPLOAD" /\ imagePreview = SampleImage
  /\ pendingAcq + liveTracks > 0
  /\ nEvents = 2
  /\ ~isAutoMonitoring

\* C12: the telemetry stored in the entry a cycle appends is the telemetry
\* that cycle wrote (to two decimals) into its augmented context, whatever
\* ticks or manual edits changed the session telemetry in between.
C12_EntryTelemetryIsContextTelemetry ==
  [][ \A c \in calls :
        (Settled(c) /\ nCompleted' = nCompleted + 1) =>
          TelemetryBlock(history'[Len(history')].telemetry) = AugmentedContext(c)
    ]_vars

\* Cycle 1 started with the initial telemetry, the telemetry changed, cycle 2
\* started with the new telemetry and completed, and then cycle 1 completed:
\* its entry carries the telemetry it started with.
C12_Witness ==
  /\ Len(history) = 2 /\ entryCalls = <<2, 1>>
  /\ history[2].telemetry =
       [temperature |-> InitTemperature, pressure |-> InitPressure]
  /\ TelemetryBlock(history[1].telemetry) # TelemetryBlock(history[2].telemetry)
  /\ telemetry = history[1].telemetry

\* Cycle c composes its augmented context in this step: its awaits before
\* analyzeExperiment have settled and the call is issued.
Composes(c) ==
  /\ c \in calls /\ c.phase = "preparing"
  /\ \E d \in calls' : d.id = c.id /\ d.phase = "analyzing"

\* C13: the telemetry block of the augmented context of every cycle, those
\* started by a monitoring tick included, lists the telemetry held in the
\* session state when the cycle composes its context.
C13_ContextListsCurrentTelemetry ==
  [][ \A c \in calls :
        Composes(c) => AugmentedContext(c) = TelemetryBlock(telemetry) ]_vars

\* C14: while the loop is armed and no analysis cycle is in progress, the
\* tick of the armed timer starts a cycle: with a frame available and a
\* non-empty context it gets past the input check, so that ticks are not
\* skipped once the outstanding call has settled.
C14_TickStartsCycleWhenIdle ==
  \A t \in timers, ready \in ReadyStates(Cur) :
    ( /\ calls = {}
      /\ ImageToAnalyze(t.closure, Cur, srcObject, ready) # NULL
      /\ t.closure.context # "" )
    => TickCallback(t, ready, Mon).nStarted = nStarted + 1

\* isAutoMonitoring becomes true in this step, on a capture-capable source.
BecomesArmed ==
  /\ ~isAutoMonitoring /\ isAutoMonitoring'
  /\ CanMonitor(inputMode', uploadType')

\* C15: the step in which auto-monitoring becomes true on a capture-capable
\* source invokes handleAnalyze once, at arming time: a cycle it starts is
\* the only one the step starts and is not started by a tick, and with the
\* loop armed the interval exists for the later ticks.
C15_ArmingTriggersCycleAtOnce ==
  [][ BecomesArmed =>
        /\ armInvoked'
        /\ nStarted' <= nStarted + 1
        /\ \A c \in StartedBy : c.trigger = "arm"
        /\ Cardinality(timers') = 1 ]_vars

\* Monitoring was toggled on for an uploaded video with a context: the
\* first cycle of the session was started by the arming.
C15_Witness ==
  /\ inputMode = "UPLOAD" /\ uploadType = "VIDEO" /\ isAutoMonitoring
  /\ armInvoked /\ nStarted = 1 /\ nEvents = 3
  /\ \E c \in calls : c.id = 1 /\ c.trigger = "arm" /\ c.image = Frame

StopsMonitoring ==
  /\ Armed(isAutoMonitoring, inputMode, uploadType)
  /\ ~Armed(isAutoMonitoring', inputMode', uploadType')

\* C17: a step that stops monitoring drops no cycle in progress, and a call
\* that completes successfully while monitoring is stopped publishes its
\* result and appends its entry as it does while monitoring is armed.
C17_StoppedLoopStillPublishes ==
  [][ /\ StopsMonitoring => \A c \in calls : c \in calls'
      /\ (SuccessStep /\ ~Armed(isAutoMonitoring, inputMode, uploadType)) =>
            /\ analysis'.result \in Results
            /\ analysis'.isLoading = FALSE /\ analysis'.error = NULL
            /\ history' = Append(history,
                                 [timestamp |-> clock',
                                  telemetry |-> history'[Len(history')].telemetry,
                                  analysis |-> analysis'.result]) ]_vars

\* Two cycles started by the camera loop were in progress when a gallery
\* selection stopped monitoring and emptied the history; the second has
\* completed since: its result is published and its entry is in the history.
C17_Witness ==
  /\ inputMode = "UPLOAD" /\ imagePreview = SampleImage /\ nEvents = 3
  /\ entryCalls = <<2>> /\ Len(history) = 1
  /\ \E c \in calls : c.id = 1 /\ c.trigger = "arm"
  /\ analysis.result # NULL

\* C18: at most one monitoring interval is active in every reachable state
\* (re-arming cancels the previous one), and none is once the loop is
\* disarmed or the component is unmounted.
C18_AtMostOneMonitoringTimer ==
  /\ Cardinality(timers) <= 1
  /\ (~isAutoMonitoring \/ ~appMounted) => timers = {}
  /\ \A t \in timers : t.id = monitoringIntervalRef

\* The loop was armed and then re-armed (each arming started a cycle), and
\* one interval is active.
C18_Witness ==
  /\ Cardinality(timers) = 1
  /\ Cardinality({c \in calls : c.trigger = "arm"}) = 2

\* C19: while the component is mounted exactly one telemetry interval is
\* active in SIMULATED mode and none in MANUAL mode, whatever mode switches
\* came before, and in MANUAL mode the telemetry changes only in a step that
\* handles a user event.
C19_OneTelemetryTimerInSimulatedMode ==
  /\ [](telemetryTimers <= 1)
  /\ [](appMounted =>
          telemetryTimers = IF telemetryMode = "SIMULATED" THEN 1 ELSE 0)
  /\ [][ (telemetryMode = "MANUAL" /\ telemetry' # telemetry)
           => (nEvents' = nEvents + 1 /\ telemetryMode' = "MANUAL") ]_vars

\* The mode was switched to MANUAL, a non-numeric temperature was entered,
\* and the mode was switched back to SIMULATED: one interval is active.
C19_Witness ==
  /\ telemetryMode = "SIMULATED" /\ telemetryTimers = 1
  /\ telemetry.temperature = 0

\* C20: in MANUAL mode a non-numeric text in the temperature (pressure)
\* input stores 0 in that field, a numeric text stores its value, and the
\* other field keeps its value.
C20_NonNumericInputStoresZero ==
  \A text \in NumericTexts(Temperatures) \cup NumericTexts(Pressures)
              \cup {NonNumericText} :
    /\ TempChange(telemetry, text) =
         [temperature |-> IF text.numeric THEN text.value ELSE 0,
          pressure |-> telemetry.pressure]
    /\ PressureChange(telemetry, text) =
         [temperature |-> telemetry.temperature,
          pressure |-> IF text.numeric THEN text.value ELSE 0]

\* A non-numeric pressure was entered after a numeric temperature that is
\* not the initial reading: the pressure is 0, the temperature is kept.
C20_Witness ==
  /\ telemetryMode = "MANUAL" /\ nTicks = 0
  /\ telemetry.pressure = 0
  /\ telemetry.temperature \notin {0, InitTemperature}

\* The renders whose handleAnalyze can run now: the current one (button,
\* effect body) and those the active intervals were created in.
LiveClosures == {Closure(Cur)} \cup {t.closure : t \in timers}

\* handleAnalyze of render r would be abandoned at its input check now.
Abandons(r, ready) ==
  ImageToAnalyze(r, Cur, srcObject, ready) = NULL \/ r.context = ""

\* C21: when handleAnalyze runs with an empty context or with no frame
\* available, whatever invoked it, it issues no call and leaves
\* analysis.isLoading, analysis.result and analysis.error as they were; a
\* button click or a tick whose cycle is abandoned leaves analysis, history
\* and isAutoMonitoring unchanged.
C21_AbandonedCycleChangesNothing ==
  /\ [](\A r \in LiveClosures, ready \in ReadyStates(Cur),
           trigger \in {"manual", "tick", "arm"} :
          Abandons(r, ready) =>
            LET m == HandleAnalyze(r, trigger, Cur, srcObject, ready, Mon)
            IN  /\ m.calls = calls /\ m.nStarted = nStarted
                /\ m.analysis = analysis
                /\ m.timers = timers /\ m.ref = monitoringIntervalRef)
  /\ [][ ((AnalyzeClick \/ MonitoringTick) /\ nStarted' = nStarted) =>
           /\ calls' = calls
           /\ analysis' = analysis
           /\ history' = history
           /\ isAutoMonitoring' = isAutoMonitoring ]_vars

\* In CAMERA mode with an empty context and no upload, the cycle of the
\* arming and the cycle of a click on "Capture & Analyze" were abandoned.
C21_Witness ==
  /\ inputMode = "CAMERA" /\ isAutoMonitoring /\ thinkingLevel = "HIGH"
  /\ context = "" /\ uploadType = NULL /\ videoFileSrc = NULL
  /\ imagePreview = NULL /\ pendingReads = 0 /\ appMounted
  /\ nEvents = 2 /\ armInvoked /\ nStarted = 0
  /\ analysis = NoAnalysis /\ history = <<>>

\* C22: for every history of length L the graph window is the last
\* min(L, 20) entries in their order in the history, the log panel lists all
\* L entries in the reverse of that order, and the history is the one passed
\* in, entry for entry.
C22_WindowIsLast20LogsAreReversed ==
  /\ [](LET L == Len(history)
            W == IF L < 20 THEN L ELSE 20
        IN  /\ Len(timeline.dataWindow) = W
            /\ \A i \in 1..W : timeline.dataWindow[i] = history[L - W + i]
            /\ Len(timeline.logs) = L
            /\ \A i \in 1..L : timeline.logs[i] = history[L + 1 - i])
  /\ [][ Len(history') = Len(history) + 1 =>
           SubSeq(history', 1, Len(history)) = history ]_vars

\* A history of 21 entries whose first entry is older than the second and
\* whose last is the newest: the window starts at the second entry, the log
\* list at the last.
C22_Witness ==
  /\ Len(history) = 21
  /\ history[1].timestamp < history[2].timestamp
  /\ history[2].timestamp < history[21].timestamp
  /\ Len(timeline.dataWindow) = 20
  /\ timeline.dataWindow[1] = history[2]
  /\ timeline.logs[1] = history[21] /\ timeline.logs[21] = history[1]

\* C23: once the input mode is not CAMERA the camera source is torn down:
\* isCameraActive is false, videoTrack and capabilities are null and no
\* camera track is live, in every state in which the new source can be used.
C23_CameraTornDownOutsideCameraMode ==
  inputMode # "CAMERA" =>
    /\ ~isCameraActive /\ ~videoTrack /\ ~capabilities
    /\ liveTracks = 0

\* C25: analysis.isLoading is true in every state in which a cycle is past
\* its input check and its call has not settled: no file selection, gallery
\* selection or completion of another call sets it to false before.
C25_LoadingWhileCallOutstanding == calls # {} => analysis.isLoading

\* C30: after the component is unmounted no monitoring interval and no
\* telemetry interval is active, and no camera track is live: the tracks
\* acquired before are stopped, and so is the track of a getUserMedia request
\* that was pending at the unmount, once it is acquired.
C30_NothingLiveAfterUnmount ==
  ~appMounted => (timers = {} /\ telemetryTimers = 0 /\ liveTracks = 0)


C29_AutoMonitoringOnlyInCameraMode ==
  isAutoMonitoring => inputMode = "CAMERA"


\* C26: in the earlier variant the failure of a cycle's analysis leaves
\* isAutoMonitoring as it was, so an armed loop stays armed.
C26_FailureKeepsAutoMonitoring ==
  [][ FailureStep => isAutoMonitoring' = isAutoMonitoring ]_vars


\* The preprocessing of cycle c is over after this step.
PreprocessingOver(c) == c.phase = "preparing" /\ c \notin calls'

\* C24: preprocessImage always settles with a value, so the preprocessing of
\* a cycle that passed its input check always ends with the cycle issuing
\* its analysis call, or failing with a later error that the catch block
\* reports.
C24_PreprocessingNeverBlocksAnalysis ==
  [][ \A c \in calls :
        PreprocessingOver(c) =>
          \/ \E d \in calls' : d.id = c.id /\ d.phase = "analyzing"
          \/ Settled(c) /\ analysis'.error # NULL ]_vars


\* The loop of the earlier variant is armed on an active camera with a
\* context and no call outstanding, simulated telemetry ticking.
ArmedWhileTelemetryTicks ==
  /\ isAutoMonitoring
  /\ inputMode = "CAMERA"
  /\ isCameraActive
  /\ context # ""
  /\ calls = {}
  /\ telemetryMode = "SIMULATED"

\* C27: in the earlier variant, from any state in which the loop is armed
\* that way, either the loop ceases to be so armed or the monitoring
\* interval fires and a cycle starts.
C27_ArmedLoopEventuallyStartsCycle ==
  \A n \in 0..(MaxCalls - 1) :
    (ArmedWhileTelemetryTicks /\ nStarted = n)
      ~> (~ArmedWhileTelemetryTicks \/ nStarted > n)


EarlyResultAndErrorExclusive ==
  /\ [](analysis.result = NULL \/ analysis.error = NULL)
  /\ [][ nStarted' > nStarted =>
           /\ analysis'.isLoading /\ analysis'.error = NULL
           /\ analysis'.result = analysis.result ]_vars
  /\ [][ SuccessStep =>
           analysis'.result # NULL /\ analysis'.error = NULL ]_vars
  /\ [][ FailureStep =>
           analysis'.result = NULL /\ analysis'.error # NULL ]_vars
  /\ [][ (EarlyHandleGallerySelect \/ EarlyFileReadEnd) =>
           analysis'.result = NULL /\ analysis'.error = NULL ]_vars


\* C33: the display a file or gallery selection has emptied stays empty
\* while the calls that were outstanding at the selection complete. A call
\* is outstanding with an empty display only if it was started before a
\* selection (its start set isLoading), so the completion of a cycle in
\* such a state leaves the display empty.
C33_StaleCompletionNotPublished ==
  [][ (analysis = NoAnalysis /\ \E c \in calls : Settled(c)) =>
        analysis' = NoAnalysis ]_vars


\* C34: the end of the read of an image file does not replace a video that
\* was selected after that image. A video source is set while a read is
\* pending only if the video was selected after the image (selecting the
\* image cleared videoFileSrc), so the end of a read in such a state leaves
\* the video as the active upload.
C34_LateImageReadKeepsLaterVideo ==
  [][ (ImageReadCompleted /\ videoFileSrc # NULL) =>
        /\ uploadType' = "VIDEO"
        /\ videoFileSrc' = videoFileSrc
        /\ imagePreview' = NULL ]_vars


InRange(v, r) == r # <<>> => (r[1].min <= v /\ v <= r[1].max)

\* C31: whenever the capabilities are set, the zoom lies within the zoom
\* range they report and the focus distance within the focusDistance range
\* they report.
C31_ControlsWithinReportedRanges ==
  capabilities =>
    InRange(zoom, caps.zoom) /\ InRange(focusDistance, caps.focusDistance)

====
